---------------------------- MODULE Spec2Model ----------------------------
(***************************************************************************)
(* Console mastermind (src/mastermind.py): the Guess record, the           *)
(* MasterMind engine (constructor, play loop, evaluate_guess,              *)
(* update_points, display_game_over) and the high-scores file.             *)
(*                                                                         *)
(* Four specifications share the same handlers:                            *)
(*   Spec      one run of the program: MasterMind(k).play()                *)
(*   SpecEval  the unit-test arrangement of src/tests.py: an engine whose  *)
(*             secret is set and one Guess appended, then evaluate_guess   *)
(*   SpecApi   an engine driven handler by handler, as src/tests.py does,  *)
(*             ignoring game_over                                          *)
(*   SpecStore save_score and display_high_scores called again and again   *)
(*             on a high-scores file that starts as an empty list          *)
(***************************************************************************)
EXTENDS Integers, Sequences, FiniteSets, Bags, TLC

VARIABLES
    requested,    \* the num_colors argument given to MasterMind.__init__
    num_colors,   \* self.num_colors
    colors,       \* self.colors
    secret,       \* self.secret
    guesses,      \* self.guesses: sequence of Guess records
    points,       \* self.points
    game_over,    \* self.game_over
    winner,       \* self.winner
    high_scores,  \* the file SCORES_FILE
    pc,           \* where the caller stands
    raised,       \* the exception that ended the run, "none" if none
    printed,      \* what the most recent handler wrote to and asked of the console
    saves,        \* how many times save_score was entered
    overs,        \* how many times display_game_over was entered
    asked,        \* how many times a guess was asked of the input source
    saved,        \* the bag of [points, initials] pairs passed to save_score
    writes,       \* for each Guess of the history, how often its counts were written
    steps         \* the handlers play has entered since its last loop test

vars == <<requested, num_colors, colors, secret, guesses, points, game_over,
          winner, high_scores, pc, raised, printed, saves, overs, asked,
          saved, writes, steps>>

engine == <<requested, num_colors, colors, secret>>

----------------------------------------------------------------------------
(* Bounds of the model *)

\* requested colour counts run from 3 - KSlack to 8 + KSlack
KSlack == 1
\* random.choice in make_secret yields one of the first SecretSpan palette colours
SecretSpan == 2
\* the high-scores file holds at most MaxStored pairs when the run starts
MaxStored == 1
\* SpecEval: secrets use the first EvalSecretSyms colours, guesses the first EvalGuessSyms
EvalSecretSyms == 3
EvalGuessSyms == 4
\* SpecApi: the history holds at most MaxHistory guesses
MaxHistory == 11
\* SpecApi: display_game_over is entered at most MaxOvers times
MaxOvers == 2
\* SpecStore: save_score is called at most MaxSaves times
MaxSaves == 4

----------------------------------------------------------------------------
(* Values *)

all_colors == <<"r", "G", "y", "g", "b", "m", "c", "w">>

Range(s) == {s[i] : i \in 1..Len(s)}

Min(a, b) == IF a < b THEN a ELSE b

\* position of colour c in all_colors
ColorIndex(c) == CHOOSE i \in 1..Len(all_colors) : all_colors[i] = c

\* Python's s[:n]
SliceTo(s, n) ==
    IF n >= Len(s) THEN s
    ELSE IF n >= 0 THEN SubSeq(s, 1, n)
    ELSE IF Len(s) + n > 0 THEN SubSeq(s, 1, Len(s) + n)
    ELSE <<>>

\* Guess.__init__(answer, black=0, white=0)
Guess(answer) == [answer |-> answer, black |-> 0, white |-> 0]

\* One line written to, or one question asked of, the console.
Line(tag, text, nums) == [tag |-> tag, text |-> text, nums |-> nums]

\* Guess.__str__ with the two counts in the other order
GuessStrBlackFirst(g) == Line("guess", g.answer, <<g.black, g.white>>)

\* Guess.__str__: the four symbols, then W:<white>, B:<black>
GuessStr(g) == Line("guess", g.answer, <<g.white, g.black>>)

\* the initials the input source may give, and their order as Python strings
InitialsPool == {"AB", "CD"}
InitialsRank(s) == IF s = "AB" THEN 1 ELSE 2

\* the answers the input source may give to the high-scores question
ShowPool == {"y", "N"}

----------------------------------------------------------------------------
(* The high-scores file: absent, or present with text that json.load       *)
(* rejects, or present holding a list of [points, initials] pairs.         *)

FileAbsent == [exists |-> FALSE, json |-> FALSE, scores |-> <<>>]
FileCorrupt == [exists |-> TRUE, json |-> FALSE, scores |-> <<>>]
FileOf(scores) == [exists |-> TRUE, json |-> TRUE, scores |-> scores]

\* the order reversed: a < b
PairLess(a, b) ==
    \/ a[1] < b[1]
    \/ a[1] = b[1] /\ InitialsRank(a[2]) < InitialsRank(b[2])

\* Python's list order on [points, initials]: a > b
PairGreater(a, b) ==
    \/ a[1] > b[1]
    \/ a[1] = b[1] /\ InitialsRank(a[2]) > InitialsRank(b[2])

\* insert pair p in the descending list s, after the pairs not below it
RECURSIVE InsertDesc(_, _)
InsertDesc(p, s) ==
    IF s = <<>> THEN <<p>>
    ELSE IF PairGreater(p, Head(s)) THEN <<p>> \o s
    ELSE <<Head(s)>> \o InsertDesc(p, Tail(s))

\* scores.sort(reverse=True)
RECURSIVE SortReverse(_)
SortReverse(s) ==
    IF s = <<>> THEN <<>>
    ELSE InsertDesc(Head(s), SortReverse(Tail(s)))

\* save_score: the file afterwards and the exception raised
save_score(file, pts, initials) ==
    IF ~file.exists
    THEN [file |-> file, exc |-> "IOError"]
    ELSE LET scores == IF file.json THEN file.scores ELSE <<>>
         IN  [file |-> FileOf(SortReverse(Append(scores, <<pts, initials>>))),
              exc |-> "none"]

\* the score lines display_high_scores prints for a list
ScoreLines(scores) ==
    [i \in 1..Len(scores) |-> Line("score", <<scores[i][2]>>, <<scores[i][1]>>)]

\* display_high_scores: what is printed and the exception raised
display_high_scores(file) ==
    IF ~file.exists
    THEN [out |-> <<Line("No high scores yet", <<>>, <<>>)>>, exc |-> "none"]
    ELSE IF ~file.json
    THEN [out |-> <<Line("High Scores:", <<>>, <<>>)>>, exc |-> "ValueError"]
    ELSE [out |-> <<Line("High Scores:", <<>>, <<>>)>> \o ScoreLines(file.scores),
          exc |-> "none"]

\* the tail of display_game_over: the high-scores question and its answer
ShowScores(file, show) ==
    LET ask == <<Line("raw_input", <<"Would you like to see the high scores?">>, <<>>)>>
    IN  IF show = "y"
        THEN LET hs == display_high_scores(file)
             IN  [out |-> ask \o hs.out, exc |-> hs.exc]
        ELSE [out |-> ask, exc |-> "none"]

\* display_game_over: the file afterwards, what is printed, the exception
\* raised and how many times save_score was entered
display_game_over(w, pts, file, initials, show) ==
    IF w
    THEN LET head == <<Line("You win!", <<>>, <<pts>>),
                       Line("raw_input", <<"Enter your initials:">>, <<>>)>>
             sv == save_score(file, pts, initials)
         IN  IF sv.exc # "none"
             THEN [file |-> sv.file, out |-> head, exc |-> sv.exc, saves |-> 1]
             ELSE LET sh == ShowScores(sv.file, show)
                  IN  [file |-> sv.file, out |-> head \o sh.out, exc |-> sh.exc,
                       saves |-> 1]
    ELSE LET sh == ShowScores(file, show)
         IN  [file |-> file, out |-> <<Line("You lose!", <<>>, <<>>)>> \o sh.out,
              exc |-> sh.exc, saves |-> 0]

----------------------------------------------------------------------------
(* The evaluation of a guess (evaluate_guess, lines 120-130) *)

\* w = [secret[n] == answer[n] for n in range(4)]
FixedMatches(sec, ans) == [n \in 1..4 |-> sec[n] = ans[n]]

\* [s[i] for i, x in enumerate(w) if not x]
RECURSIVE Unmatched(_, _, _)
Unmatched(s, w, i) ==
    IF i > Len(w) THEN <<>>
    ELSE IF w[i] THEN Unmatched(s, w, i + 1)
    ELSE <<s[i]>> \o Unmatched(s, w, i + 1)

\* list.remove(g): drop the first occurrence of g
RECURSIVE RemoveFirst(_, _)
RemoveFirst(s, g) ==
    IF s = <<>> THEN <<>>
    ELSE IF Head(s) = g THEN Tail(s)
    ELSE <<Head(s)>> \o RemoveFirst(Tail(s), g)

\* Consume without the removal: a secret colour could answer two guess colours
ConsumeNothing(sec, g) == sec

\* the list left after "if g in secret: ... secret.remove(g)"
Consume(sec, g) == RemoveFirst(sec, g)

\* for g in answer: if g in secret: b += 1; secret.remove(g)
RECURSIVE ColorMatches(_, _)
ColorMatches(sec, ans) ==
    IF ans = <<>> THEN 0
    ELSE IF Head(ans) \in Range(sec)
    THEN 1 + ColorMatches(Consume(sec, Head(ans)), Tail(ans))
    ELSE ColorMatches(sec, Tail(ans))

\* w = sum([1 for n in w if n])
CountTrue(w) == Cardinality({n \in 1..Len(w) : w[n]})

\* the counts written to the Guess record: white, black
Score(sec, ans) ==
    LET w == FixedMatches(sec, ans)
    IN  [white |-> CountTrue(w),
         black |-> ColorMatches(Unmatched(sec, w, 1), Unmatched(ans, w, 1))]

\* Outcome with the points check ahead of the comparison with the secret
OutcomeLossFirst(sec, ans, pts) ==
    IF pts < 0 THEN "lost"
    ELSE IF ans = sec THEN "won"
    ELSE "scored"

\* Outcome comparing only the first three positions with the secret
OutcomeThreeOfFour(sec, ans, pts) ==
    IF SubSeq(ans, 1, 3) = SubSeq(sec, 1, 3) THEN "won"
    ELSE IF pts < 0 THEN "lost"
    ELSE "scored"

\* which branch evaluate_guess takes (lines 110-118)
Outcome(sec, ans, pts) ==
    IF ans = sec THEN "won"
    ELSE IF pts < 0 THEN "lost"
    ELSE "scored"

\* self.points = (10 - len(self.guesses)) * self.num_colors * 10
PointsFor(n, nc) == (10 - n) * nc * 10

\* OutOfPoints with a strict comparison
OutOfPointsStrict(pts) == pts < 0

\* if self.points <= 0 (update_points)
OutOfPoints(pts) == pts <= 0

----------------------------------------------------------------------------
(* MasterMind.__init__ *)

\* Clamp without the upper limit
ClampLowOnly(n) == IF n < 3 THEN 3 ELSE n

\* the clamp of num_colors (lines 80-83)
Clamp(n) == IF n < 3 THEN 3 ELSE IF n > 8 THEN 8 ELSE n

\* make_secret: four independent random.choice(self.colors)
make_secret(cols) ==
    [1..4 -> {cols[i] : i \in 1..Min(SecretSpan, Len(cols))}]

\* the constructor's closing update_points (line 90): with no guess in the
\* history the points are positive for every palette, else the game is over
\* and display_game_over has run
FirstPoints(nc, file, show) ==
    LET pts == PointsFor(0, nc)
    IN  IF OutOfPoints(pts)
        THEN LET r == display_game_over(FALSE, pts, file, "AB", show)
             IN  [pts |-> pts, over |-> TRUE, file |-> r.file, out |-> r.out,
                  exc |-> r.exc, overs |-> 1]
        ELSE [pts |-> pts, over |-> FALSE, file |-> file, out |-> <<>>,
              exc |-> "none", overs |-> 0]

\* the engine after MasterMind(n) with the high-scores file as given; the
\* secret and the history are set by the caller of this definition
Constructed(n, file) ==
    /\ requested = n
    /\ num_colors = Clamp(n)
    /\ colors = SliceTo(all_colors, num_colors)
    /\ winner = FALSE
    /\ \E show \in ShowPool :
         LET f == FirstPoints(num_colors, file, show)
         IN  /\ points = f.pts
             /\ game_over = f.over
             /\ high_scores = f.file
             /\ printed = f.out
             /\ raised = f.exc
             /\ overs = f.overs
    /\ saves = 0
    /\ asked = 0
    /\ saved = EmptyBag
    /\ steps = <<>>

----------------------------------------------------------------------------
(* The handlers, as changes of the engine, the file and the console.  The  *)
(* caller's position pc is set by the specification that calls them.       *)

\* the caller's position after a handler: an exception ends the run
Then(next) == pc' = IF raised' # "none" THEN "raised" ELSE next

\* display_game: the frame, each guess of the history in order, the frame
display_game ==
    /\ printed' = <<Line("frame", <<>>, <<>>)>>
                  \o [i \in 1..Len(guesses) |-> GuessStr(guesses[i])]
                  \o <<Line("frame", <<>>, <<>>)>>
    /\ UNCHANGED <<engine, guesses, points, game_over, winner, high_scores,
                   raised, saves, overs, asked, saved, writes>>

\* get_next_guess with the input source answering g
get_next_guess(g) ==
    /\ printed' = <<Line("For possible points", <<>>, <<points>>),
                    Line("raw_input", <<"Enter your guess.">>, <<>>)>>
    /\ guesses' = Append(guesses, Guess(g))
    /\ asked' = asked + 1
    /\ writes' = Append(writes, 0)
    /\ UNCHANGED <<engine, points, game_over, winner, high_scores, raised,
                   saves, overs, saved>>

\* the game ends (game_over = True; display_game_over()) with winner w
\* and points pts
EndGame(w, pts, initials, show) ==
    LET r == display_game_over(w, pts, high_scores, initials, show)
    IN  /\ game_over' = TRUE
        /\ winner' = w
        /\ high_scores' = r.file
        /\ printed' = r.out
        /\ raised' = r.exc
        /\ saves' = saves + r.saves
        /\ saved' = IF r.saves = 1
                    THEN saved (+) SetToBag({<<pts, initials>>})
                    ELSE saved
        /\ overs' = overs + 1

\* the counts written to the first record of the history instead of the last
WriteCountsFirst(gs, sc) ==
    [gs EXCEPT ![1] = [@ EXCEPT !.white = sc.white, !.black = sc.black]]

\* guess = self.guesses[-1]; guess.white = w; guess.black = b
WriteCounts(gs, sc) ==
    [gs EXCEPT ![Len(gs)] = [@ EXCEPT !.white = sc.white, !.black = sc.black]]

\* evaluate_guess with the input source answering initials and show
evaluate_guess(initials, show) ==
    LET last == Len(guesses)
        answer == guesses[last].answer
        o == Outcome(secret, answer, points)
    IN  /\ last > 0
        /\ IF o = "won"
           THEN /\ EndGame(TRUE, points, initials, show)
                /\ UNCHANGED <<guesses, points, writes>>
           ELSE IF o = "lost"
           THEN /\ EndGame(winner, points, initials, show)
                /\ UNCHANGED <<guesses, points, writes>>
           ELSE /\ guesses' = WriteCounts(guesses, Score(secret, answer))
                /\ writes' = [writes EXCEPT ![last] = @ + 1]
                /\ printed' = <<>>
                /\ UNCHANGED <<points, game_over, winner, high_scores,
                               raised, saves, overs, saved>>
        /\ UNCHANGED <<engine, asked>>

\* update_points with the input source answering initials and show
update_points(initials, show) ==
    LET pts == PointsFor(Len(guesses), num_colors)
    IN  /\ points' = pts
        /\ IF OutOfPoints(pts)
           THEN EndGame(winner, pts, initials, show)
           ELSE /\ printed' = <<>>
                /\ UNCHANGED <<game_over, winner, high_scores, raised, saves,
                               overs, saved>>
        /\ UNCHANGED <<engine, guesses, asked, writes>>

----------------------------------------------------------------------------
(* The input source: on its n-th turn the player enters the secret or a    *)
(* guess that differs from it.                                             *)

Rotate(s, j) == [i \in 1..4 |-> s[((i - 1 + j) % 4) + 1]]

NextColor(c) == all_colors[(ColorIndex(c) % Len(all_colors)) + 1]

Script(sec, n) ==
    LET r == Rotate(sec, n)
    IN  [i \in 1..4 |-> IF i = (n % 4) + 1 THEN NextColor(r[i]) ELSE r[i]]

PlayerGuesses(sec, n) == {sec, Script(sec, n)}

----------------------------------------------------------------------------
(* Spec: one run of the program, MasterMind(k).play() *)

KRange == (3 - KSlack)..(8 + KSlack)

SeedPairs == {<<120, "AB">>, <<300, "CD">>}

\* the high-scores file when the run starts: absent, unreadable, or a list
\* as save_score leaves it
StartFiles ==
    {FileAbsent, FileCorrupt} \cup
    {FileOf(s) : s \in {t \in UNION {[1..m -> SeedPairs] : m \in 0..MaxStored} :
                          SortReverse(t) = t}}

Init ==
    /\ \E n \in KRange, file \in StartFiles : Constructed(n, file)
    /\ secret \in make_secret(colors)
    /\ guesses = <<>>
    /\ writes = <<>>
    /\ pc = IF raised # "none" THEN "raised" ELSE "play"

\* play, line 94: the valid colours are printed
PlayStart ==
    /\ pc = "play"
    /\ printed' = <<Line("valid colors are", colors, <<>>)>>
    /\ pc' = "while"
    /\ UNCHANGED <<engine, guesses, points, game_over, winner, high_scores,
                   raised, saves, overs, asked, saved, writes, steps>>

\* the loop test ignoring game_over
LoopAlways(over) == TRUE

\* while not self.game_over
LoopContinues(over) == ~over

PlayLoop ==
    /\ pc = "while"
    /\ pc' = IF LoopContinues(game_over) THEN "display_game" ELSE "returned"
    /\ steps' = <<>>
    /\ UNCHANGED <<engine, guesses, points, game_over, winner, high_scores,
                   raised, printed, saves, overs, asked, saved, writes>>

PlayDisplayGame ==
    /\ pc = "display_game"
    /\ display_game
    /\ steps' = Append(steps, "display_game")
    /\ pc' = "get_next_guess"

PlayGetNextGuess ==
    /\ pc = "get_next_guess"
    /\ \E g \in PlayerGuesses(secret, Len(guesses) + 1) : get_next_guess(g)
    /\ steps' = Append(steps, "get_next_guess")
    /\ pc' = "evaluate_guess"

PlayEvaluateGuess ==
    /\ pc = "evaluate_guess"
    /\ \E initials \in InitialsPool, show \in ShowPool :
         evaluate_guess(initials, show)
    /\ steps' = Append(steps, "evaluate_guess")
    /\ Then("update_points")

PlayUpdatePoints ==
    /\ pc = "update_points"
    /\ \E initials \in InitialsPool, show \in ShowPool :
         update_points(initials, show)
    /\ steps' = Append(steps, "update_points")
    /\ Then("while")

Next ==
    \/ PlayStart
    \/ PlayLoop
    \/ PlayDisplayGame
    \/ PlayGetNextGuess
    \/ PlayEvaluateGuess
    \/ PlayUpdatePoints

Spec == Init /\ [][Next]_vars

\* the run as a sequential program whose input source answers every prompt:
\* the statement play has reached is eventually executed
SpecLive == Spec /\ WF_vars(Next)

----------------------------------------------------------------------------
(* SpecEval: the arrangement of test_evaluate_guess_* in src/tests.py:     *)
(* mm = MasterMind(8); mm.secret = ...; mm.guesses.append(Guess(...));     *)
(* mm.evaluate_guess()                                                     *)

Words(n) == [1..4 -> {all_colors[i] : i \in 1..Min(n, Len(all_colors))}]

\* the words of test_evaluate_double_color_secret and _guess
TestWords == {<<"r", "b", "w", "r">>, <<"g", "r", "g", "y">>}

EvalInit ==
    /\ Constructed(8, FileOf(<<>>))
    /\ secret \in Words(EvalSecretSyms) \cup TestWords
    /\ \E g \in Words(EvalGuessSyms) \cup TestWords : guesses = <<Guess(g)>>
    /\ writes = <<0>>
    /\ pc = "test"

TestEvaluateGuess ==
    /\ pc = "test"
    /\ \E initials \in InitialsPool, show \in ShowPool :
         evaluate_guess(initials, show)
    /\ UNCHANGED steps
    /\ Then("tested")

EvalNext == TestEvaluateGuess

SpecEval == EvalInit /\ [][EvalNext]_vars

----------------------------------------------------------------------------
(* SpecApi: an engine built by MasterMind(k) whose secret is set to rgby   *)
(* (src/tests.py line 129) and whose handlers are then called one by one,  *)
(* whatever game_over says: a guess is entered, update_points is called    *)
(* any number of times, the guess is evaluated.  The calls stop after a    *)
(* win.                                                                    *)

ApiInit ==
    /\ \E n \in KRange : Constructed(n, FileOf(<<>>))
    /\ secret = <<"r", "g", "b", "y">>
    /\ guesses = <<>>
    /\ writes = <<>>
    /\ pc = "idle"

ApiCalls ==
    /\ raised = "none"
    /\ ~winner
    /\ overs < MaxOvers

ApiGetNextGuess ==
    /\ ApiCalls
    /\ pc = "idle"
    /\ Len(guesses) < MaxHistory
    /\ \E g \in PlayerGuesses(secret, Len(guesses) + 1) : get_next_guess(g)
    /\ UNCHANGED steps
    /\ pc' = "pending"

ApiEvaluateGuess ==
    /\ ApiCalls
    /\ pc = "pending"
    /\ \E initials \in InitialsPool, show \in ShowPool :
         evaluate_guess(initials, show)
    /\ UNCHANGED steps
    /\ Then("idle")

ApiUpdatePoints ==
    /\ ApiCalls
    /\ pc \in {"idle", "pending"}
    /\ \E initials \in InitialsPool, show \in ShowPool :
         update_points(initials, show)
    /\ UNCHANGED steps
    /\ Then(pc)

ApiDisplayGame ==
    /\ ApiCalls
    /\ pc = "idle"
    /\ display_game
    /\ UNCHANGED steps
    /\ pc' = pc

ApiNext ==
    \/ ApiGetNextGuess
    \/ ApiEvaluateGuess
    \/ ApiUpdatePoints
    \/ ApiDisplayGame

SpecApi == ApiInit /\ [][ApiNext]_vars

----------------------------------------------------------------------------
(* SpecStore: the high-scores file starts as an empty list; engines that   *)
(* won with pts points call save_score(initials), and display_high_scores  *)
(* reads the file back, in any order.                                      *)

\* points a win can carry: update_points with 9, 8, 7 guesses and 3 colours
WinPoints == {PointsFor(n, 3) : n \in 7..9}

StoreInit ==
    /\ Constructed(3, FileOf(<<>>))
    /\ secret = <<"r", "G", "y", "r">>
    /\ guesses = <<>>
    /\ writes = <<>>
    /\ pc = "store"

StoreSaveScore ==
    /\ pc \in {"store", "shown"}
    /\ saves < MaxSaves
    /\ \E pts \in WinPoints, initials \in InitialsPool :
         LET r == save_score(high_scores, pts, initials)
         IN  /\ points' = pts
             /\ high_scores' = r.file
             /\ raised' = r.exc
             /\ saved' = saved (+) SetToBag({<<pts, initials>>})
    /\ saves' = saves + 1
    /\ printed' = <<>>
    /\ Then("store")
    /\ UNCHANGED <<engine, guesses, game_over, winner, overs, asked, writes,
                   steps>>

StoreDisplayHighScores ==
    /\ pc = "store"
    /\ LET r == display_high_scores(high_scores)
       IN  /\ printed' = r.out
           /\ raised' = r.exc
    /\ Then("shown")
    /\ UNCHANGED <<engine, guesses, points, game_over, winner, high_scores,
                   saves, overs, asked, saved, writes, steps>>

StoreNext ==
    \/ StoreSaveScore
    \/ StoreDisplayHighScores

SpecStore == StoreInit /\ [][StoreNext]_vars

----------------------------------------------------------------------------
(* Properties *)

LastGuess == guesses[Len(guesses)]

Occurrences(s, c) == Cardinality({i \in 1..Len(s) : s[i] = c})

\* sum over the colours all_colors[i..8] of the smaller of the occurrences in
\* sec and in ans
RECURSIVE SharedColors(_, _, _)
SharedColors(sec, ans, i) ==
    IF i > Len(all_colors) THEN 0
    ELSE Min(Occurrences(sec, all_colors[i]), Occurrences(ans, all_colors[i]))
         + SharedColors(sec, ans, i + 1)

SamePositions(sec, ans) == Cardinality({i \in 1..4 : sec[i] = ans[i]})

\* C1: for a guess that differs from the secret, evaluate_guess writes
\* white = the number of positions where guess and secret agree, and
\* black = (sum over colours of the smaller occurrence count) - white.
C1_TwoPassIsMultisetCount ==
    (pc = "tested" /\ LastGuess.answer # secret) =>
        /\ LastGuess.white = SamePositions(secret, LastGuess.answer)
        /\ LastGuess.black = SharedColors(secret, LastGuess.answer, 1)
                             - SamePositions(secret, LastGuess.answer)

\* a guess with a colour twice, the secret holding it once elsewhere: one
\* colour match, not two
C1_Witness ==
    /\ pc = "tested"
    /\ secret = <<"G", "r", "G", "y">>
    /\ LastGuess = [answer |-> <<"r", "g", "g", "r">>, black |-> 1, white |-> 0]

\* C2: after evaluate_guess the counts of the guess satisfy
\* exact + partial <= 4, and exact = 4 exactly when the guess is the secret.
C2_ExactFourIffIdentical ==
    pc = "tested" =>
        /\ LastGuess.white + LastGuess.black <= 4
        /\ (LastGuess.white = 4 <=> LastGuess.answer = secret)

\* C3: a call of evaluate_guess whose last guess equals the secret sets
\* game_over and winner, whatever the history length and the points.
C3_MatchWins ==
    [][(pc = "pending" /\ pc' # "pending" /\ LastGuess.answer = secret)
         => (game_over' /\ winner')]_vars

\* a win by the 11th guess of the history, entered with points below zero
C3_Witness ==
    /\ winner
    /\ game_over
    /\ points < 0
    /\ Len(guesses) = 11
    /\ pc = "idle"

\* C4: after update_points, points = (10 - n) * p * 10 for n guesses and
\* palette size p; when that value is <= 0 and the last guess is not the
\* secret the game is lost; and a game is lost only with 10 guesses in the
\* history.
C4_PointsAndLoss ==
    /\ pc \in {"while", "returned"} =>
         /\ points = (10 - Len(guesses)) * Len(colors) * 10
         /\ (points <= 0 /\ Len(guesses) > 0 /\ LastGuess.answer # secret)
              => (game_over /\ ~winner)
    /\ (game_over /\ ~winner) => Len(guesses) = 10

\* the play loop has returned after ten guesses that missed
C4_Witness ==
    /\ pc = "returned"
    /\ game_over
    /\ ~winner
    /\ Len(guesses) = 10
    /\ points = 0

\* C5: winner holds exactly when the game is over and the last guess of the
\* history is the secret.
C5_WinnerIffMatch ==
    winner <=> (game_over /\ Len(guesses) > 0 /\ LastGuess.answer = secret)

\* a run won by its third guess
C5_Witness ==
    /\ pc = "returned"
    /\ winner
    /\ Len(guesses) = 3

\* C6: game_over, once true, stays true, and from then on no guess is asked
\* for or appended.
C6_OverIsFinal ==
    [][game_over => (game_over' /\ asked' = asked /\ Len(guesses') = Len(guesses))]_vars

\* the game ended in evaluate_guess, update_points ran, and the loop returned
C6_Witness ==
    /\ pc = "returned"
    /\ game_over
    /\ Len(guesses) < 10

\* C7: the palette is the first max(3, min(8, k)) colours of all_colors and
\* num_colors is that number.
C7_PaletteClamped ==
    LET m == IF requested < 3 THEN 3
             ELSE IF requested < 8 THEN requested ELSE 8
    IN  /\ num_colors = m
        /\ colors = [i \in 1..m |-> all_colors[i]]

\* an engine asked for more colours than there are
C7_Witness ==
    /\ requested > 8
    /\ Len(colors) = 8

\* C8: a run enters save_score at most once.
C8_SavedAtMostOnce == saves <= 1

\* C9: a save_score that finds the file absent or unreadable raises nothing
\* and leaves the file holding exactly the new pair.
C9_SaveReadsBadFileAsEmpty ==
    [][(saves' = saves + 1 /\ ~(high_scores.exists /\ high_scores.json))
         => /\ raised' = "none"
            /\ \E i \in InitialsPool :
                 high_scores' = FileOf(<< <<points', i>> >>)]_vars

\* C10: a display_high_scores that finds the file absent or unreadable
\* raises nothing, prints no score pair and leaves the file as it was.
C10_DisplayReadsBadFileAsEmpty ==
    [][(/\ overs' = overs + 1
        /\ \E j \in 1..Len(printed') :
             printed'[j].tag \in {"High Scores:", "No high scores yet"}
        /\ ~(high_scores'.exists /\ high_scores'.json))
         => /\ raised' = "none"
            /\ \A j \in 1..Len(printed') : printed'[j].tag # "score"
            /\ high_scores' = high_scores]_vars

\* the bag of the elements of sequence s
RECURSIVE BagOfSeq(_)
BagOfSeq(s) ==
    IF s = <<>> THEN EmptyBag
    ELSE SetToBag({Head(s)}) (+) BagOfSeq(Tail(s))

\* C11: starting from an empty list, after every save_score the file holds
\* exactly the pairs saved so far, each as often as it was saved, with
\* points never rising from one pair to the next; display_high_scores
\* prints the pairs of the file in that order.
C11_StoreRoundTrip ==
    /\ high_scores.exists /\ high_scores.json
    /\ BagOfSeq(high_scores.scores) = saved
    /\ \A i, j \in 1..Len(high_scores.scores) :
         i < j => high_scores.scores[i][1] >= high_scores.scores[j][1]
    /\ pc = "shown" =>
         /\ Len(printed) = Len(high_scores.scores) + 1
         /\ \A i \in 1..Len(high_scores.scores) :
              /\ printed[i + 1].nums = <<high_scores.scores[i][1]>>
              /\ printed[i + 1].text = <<high_scores.scores[i][2]>>

\* three saves, the second with more points than the first and the third a
\* repeat of the first, read back
C11_Witness ==
    /\ pc = "shown"
    /\ saves = 3
    /\ high_scores.scores = << <<90, "AB">>, <<30, "CD">>, <<30, "CD">> >>

\* evaluate_guess has scored one of the words rbwr, grgy against the other
DoubleColorCase ==
    /\ pc = "tested"
    /\ secret \in TestWords
    /\ LastGuess.answer \in TestWords
    /\ LastGuess.answer # secret

\* C12 as claimed: guess grgy against secret rbwr, and rbwr against grgy,
\* both get exact = 1 (positions that agree) and partial = 0 (colour only).
C12_OneExactNoPartial ==
    DoubleColorCase => (LastGuess.white = 1 /\ LastGuess.black = 0)

\* C12 amended: guess grgy against secret rbwr, and rbwr against grgy, both
\* get exact = 0 (no position agrees) and partial = 1 (one r, elsewhere).
C12_NoExactOnePartial ==
    DoubleColorCase =>
        /\ LastGuess.white = 0
        /\ LastGuess.black = 1
        /\ LastGuess.white = SamePositions(secret, LastGuess.answer)

\* the guess rbwr scored against the secret grgy: its second r finds no r left
C12_Witness ==
    /\ pc = "tested"
    /\ secret = <<"g", "r", "g", "y">>
    /\ LastGuess.answer = <<"r", "b", "w", "r">>
    /\ LastGuess.black = 1

\* the number of colour-only matches of ans against sec, by counting
ColorOnly(sec, ans) == SharedColors(sec, ans, 1) - SamePositions(sec, ans)

\* board p shows, between its two frame lines, each guess of gs in order
\* with the numbers w(guess) after W: and b(guess) after B:
BoardShows(p, gs, w(_), b(_)) ==
    /\ Len(p) = Len(gs) + 2
    /\ \A i \in 1..Len(gs) :
         /\ p[i + 1].tag = "guess"
         /\ p[i + 1].text = gs[i].answer
         /\ p[i + 1].nums = <<w(gs[i].answer), b(gs[i].answer)>>

\* display_game leaves the engine, the history and the file as they were
RenderingIsPure ==
    pc = "display_game" =>
        UNCHANGED <<engine, guesses, points, game_over, winner, high_scores>>

\* C13 as claimed: for every scored guess the board shows the colour-only
\* count after W: and the right-position count after B:, W before B, and
\* rendering changes no state.
C13_WShowsPartial ==
    [][/\ pc' = "get_next_guess" =>
            BoardShows(printed', guesses',
                       LAMBDA a : ColorOnly(secret, a),
                       LAMBDA a : SamePositions(secret, a))
       /\ RenderingIsPure]_vars

\* C13 amended: for every scored guess the board shows the right-position
\* count (field white) after W: and the colour-only count (field black)
\* after B:, W before B, and rendering changes no state.
C13_WShowsExact ==
    [][/\ pc' = "get_next_guess" =>
            BoardShows(printed', guesses',
                       LAMBDA a : SamePositions(secret, a),
                       LAMBDA a : ColorOnly(secret, a))
       /\ RenderingIsPure]_vars

\* a board whose first guess has different counts after W: and B:
C13_Witness ==
    /\ pc = "get_next_guess"
    /\ Len(guesses) >= 2
    /\ printed[2].tag = "guess"
    /\ printed[2].nums[1] # printed[2].nums[2]

\* the four steps of one iteration of play, in order
FullIteration ==
    <<"display_game", "get_next_guess", "evaluate_guess", "update_points">>

\* C14: whenever play is between iterations or has ended, the steps entered
\* since the last loop test are none or exactly display_game, get_next_guess,
\* evaluate_guess, update_points, once each and in that order; game_over is
\* examined only at the loop test, so update_points still runs in the
\* iteration in which evaluate_guess ends the game.
C14_FourStepsInOrder ==
    pc \in {"while", "returned", "raised"} => steps \in {<<>>, FullIteration}

\* C15: when play has returned, display_game_over has been invoked exactly
\* once since construction, whether the game was won or lost.
C15_OutcomeRenderedOnce == pc = "returned" => overs = 1

\* C16: in every reachable state the history holds at most 10 guesses, and
\* when the input source answers every prompt, game_over eventually becomes
\* true and play returns.
C16_PlayReturns ==
    /\ [](Len(guesses) <= 10)
    /\ <>(game_over /\ pc = "returned")

\* the guess evaluate_guess is about to look at: the last one, just appended
AwaitsEvaluation(i) == i = Len(guesses) /\ pc = "evaluate_guess"

\* C17: every guess of the history starts with both counts 0 and no write,
\* and once the evaluate_guess call that follows its append is over its
\* counts have been written exactly once, the guess that ends the game
\* included (runs ended by an exception are left aside).
C17_CountsWrittenOnce ==
    \A i \in 1..Len(guesses) :
        IF AwaitsEvaluation(i)
        THEN writes[i] = 0 /\ guesses[i].white = 0 /\ guesses[i].black = 0
        ELSE pc # "raised" => writes[i] = 1

\* play is inside one of the handlers that only show or count
ShowsOrCounts == pc \in {"play", "while", "display_game", "update_points"}

\* C18: no step after construction changes the secret, which stays a
\* 4-symbol sequence over the active palette; no step changes, removes or
\* reorders a guess record other than the last; get_next_guess only appends
\* one record; evaluate_guess leaves the length and the last answer alone;
\* update_points, display_game and display_game_over leave the whole
\* history unchanged.
C18_SecretAndHistoryFrame ==
    [][/\ secret' = secret
       /\ secret' \in [1..4 -> Range(colors')]
       /\ \A i \in 1..(Len(guesses) - 1) :
            i <= Len(guesses') /\ guesses'[i] = guesses[i]
       /\ pc = "get_next_guess" =>
            /\ Len(guesses') = Len(guesses) + 1
            /\ SubSeq(guesses', 1, Len(guesses)) = guesses
       /\ pc = "evaluate_guess" =>
            /\ Len(guesses') = Len(guesses)
            /\ LastGuess'.answer = LastGuess.answer
       /\ (ShowsOrCounts \/ overs' # overs) => guesses' = guesses]_vars

\* evaluate_guess has just written counts to the last of several records,
\* and they differ from the counts of the first record
C18_Witness ==
    /\ pc = "update_points"
    /\ Len(guesses) >= 2
    /\ writes[Len(guesses)] = 1
    /\ <<LastGuess.white, LastGuess.black>>
         # <<guesses[1].white, guesses[1].black>>

\* the points offered in the prompt before the guess that won was entered
PromptedPoints == (11 - Len(guesses)) * Len(colors) * 10

\* C19: in a run that is won, every victory message shown and every pair
\* passed to save_score carries the points offered before the winning guess
\* was entered, (11 - n) * p * 10 for a win on guess n with palette size p;
\* so no pair with points <= 0 is saved.
C19_WinCarriesPromptedPoints ==
    winner =>
        /\ \A pair \in BagToSet(saved) :
             pair[1] = PromptedPoints /\ pair[1] > 0
        /\ \A i \in 1..Len(printed) :
             printed[i].tag = "You win!" => printed[i].nums = <<PromptedPoints>>

\* C20: whenever evaluate_guess is entered in a play run points is at least
\* 10 * p, so its negative-points branch is not taken; a loss is produced
\* only by update_points; and every non-matching guess, the 10th included,
\* is scored, with the counts of the rules, while the game is not yet over.
C20_LossOnlyFromUpdatePoints ==
    [][/\ pc' = "evaluate_guess" =>
            /\ points' >= 10 * Len(colors')
            /\ Outcome(secret', LastGuess'.answer, points') # "lost"
       /\ (~game_over /\ game_over' /\ ~winner') => pc = "update_points"
       /\ (pc = "evaluate_guess" /\ LastGuess.answer # secret) =>
            /\ ~game_over /\ ~game_over'
            /\ writes'[Len(guesses)] = 1
            /\ LastGuess'.white = SamePositions(secret, LastGuess.answer)
            /\ LastGuess'.black = ColorOnly(secret, LastGuess.answer)]_vars

\* the 10th guess, which differs from the secret, has been scored and the
\* game is not yet over
C20_Witness ==
    /\ pc = "update_points"
    /\ Len(guesses) = 10
    /\ LastGuess.answer # secret
    /\ writes[10] = 1
    /\ points = 10 * Len(colors)
    /\ ~game_over

============================================================================
